---- MODULE Spec2Model ----
(***************************************************************************)
(* Dependency-ordered start and stop of named services (graceful.go).      *)
(*                                                                         *)
(* The orchestrator is modelled as one Graceful instance: the registry     *)
(* (svcs, graph), the started order, the error channel, the Start and Stop *)
(* calls as threads of control with a position each, and one goroutine per *)
(* launched service start / stop operation.                                *)
(***************************************************************************)
EXTENDS Integers, Sequences, FiniteSets, TLC

\* ------------------------------------------------------------------ bounds

\* Service names a caller may register or list as a dependency.
Names == {"a", "b", "c"}

\* Service names registered where Add and Start calls alternate freely; the
\* third name is then listed as a dependency only.
CallNames == {"a", "b"}

\* Service objects a caller may pass to Add.
Impls == {"s1", "s2"}

\* Length of the dependency list passed to one Add call.
MaxDeps == 1

\* Number of cleanup functions passed to one Shutdown call.
MaxCleanups == 2

\* Exit codes a caller may pass to Shutdown.
Codes == {0, 2}

\* Number of Add calls that name a service registered already.
MaxReAdds == 1

\* Number of Stop calls on one instance.
MaxStops == 2

\* Number of Start calls on one instance.
MaxStarts == 2

\* Length of a dependency list in the registries sort is applied to on its own.
MaxSortDeps == 2

\* ------------------------------------------------------------------- state

VARIABLES
    svcs,       \* g.svcs: name -> ServiceDef (Service, Name, Deps, once)
    graph,      \* g.graph: name -> dependency list
    order,      \* g.order: names in the order their start was launched
    cherr,      \* g.cherr: 0 is the nil channel, k the channel made by the k-th Start
    startPc,    \* position of the Start call: "idle", "loop", "done"
    startRet,   \* what Start returned: NotReturned, Nil or a GracefulError
    sorted,     \* Start's local: the order sort() returned
    idx,        \* Start's local: index of the next name of sorted to visit
    started,    \* Start's local map: names whose start has been launched
    sg,         \* start goroutines, in launch order (parallel to order)
    stopPc,     \* position of the Stop call: "idle", "loop", "done"
    stopI,      \* Stop's loop index i into g.order
    stopRet,    \* what Stop returned: NotReturned, Nil or the GracefulError received
    tg,         \* stop goroutines, in launch order, each with the Stop call it belongs to
    stopN,      \* history: number of Stop calls made
    startCalls, \* history: times Service.Start ran, per name and service object
    stopCalls,  \* history: times Service.Stop ran, per name and service object
    adds,       \* history: re  = Add calls that replaced a registered name,
                \*          late = some Add call followed the first Start call,
                \*          before = what sort could return before the latest
                \*                   AddDeduped call (empty if there was none),
                \*          last = per name, the arguments of the latest Add call
    sdPc,       \* position of the Shutdown call (v1.go): "idle", "send", "launch",
                \*   "select", "close", "return", "done"
    codeArg,    \* Shutdown's argument code as the caller passed it
    code,       \* Shutdown's variable code, written by failing cleanups and the timeout
    cleanups,   \* per cleanup of the slice, its goroutine's call cleanup(ctx): "pending",
                \*   "ready", "running", "failed" (returned an error), "done", "doneErr"
    waiter,     \* the goroutine of lines 182-185: "none", "waiting", "sending", "exited", "panicked"
    doneClosed, \* close(done) has run
    mu,         \* holder of the mutex mu: "free", "shutdown"
    timedOut,   \* the select took the time.After case
    sdRet       \* what Shutdown returned (meaningful once sdPc = "done")

gracefulVars == <<svcs, graph, order, cherr, startPc, startRet, sorted, idx,
                  started, sg, stopPc, stopI, stopRet, tg, stopN, startCalls, stopCalls>>

shutdownVars == <<sdPc, codeArg, code, cleanups, waiter, doneClosed, mu, timedOut, sdRet>>

vars == <<gracefulVars, adds, shutdownVars>>

regVars == <<svcs, graph>>
startVars == <<startPc, startRet, sorted, idx, started>>
stopVars == <<stopPc, stopI, stopRet, stopN>>

\* ----------------------------------------------------------------- helpers

\* Sequences over S of length at most n.
SeqsUpTo(S, n) == UNION {[1..k -> S] : k \in 0..n}

\* The dependency lists a caller may pass to Add.
DepLists == SeqsUpTo(Names, MaxDeps)

\* The elements of a sequence.
Range(s) == {s[i] : i \in DOMAIN s}

\* Number of occurrences of x in sequence s.
Count(s, x) == Cardinality({i \in DOMAIN s : s[i] = x})

\* All orders in which a map over the key set S may be iterated.
Perms(S) == {p \in [1..Cardinality(S) -> S] : Range(p) = S}

Reverse(s) == [i \in DOMAIN s |-> s[Len(s) + 1 - i]]

RECURSIVE SumOver(_, _)
SumOver(S, f) ==
    IF S = {} THEN 0
    ELSE LET x == CHOOSE y \in S : TRUE IN f[x] + SumOver(S \ {x}, f)

\* GracefulError{Service, Reason}
NewGracefulError(service, reason) == [Service |-> service, Reason |-> reason]

\* The values of startRet and stopRet besides a GracefulError: the call has
\* not returned, or it returned nil.
NotReturned == [Service |-> "", Reason |-> "not returned"]
Nil == [Service |-> "", Reason |-> "nil"]

\* -------------------------------------------------------------------- sort

\* Lines 142-147: in-degree of every name listed as a dependency.
DegreeOfDeps ==
    LET listed == UNION {Range(svcs[n].Deps) : n \in DOMAIN svcs}
    IN  [d \in listed |-> SumOver(DOMAIN svcs, [n \in DOMAIN svcs |-> Count(svcs[n].Deps, d)])]

\* Lines 152-160: registered names missing from the degree map get 0; the
\* queue is seeded, in map iteration order perm, with the names of degree 0.
InitDegree ==
    LET dd == DegreeOfDeps
    IN  [n \in (DOMAIN dd) \cup (DOMAIN svcs) |-> IF n \in DOMAIN dd THEN dd[n] ELSE 0]

\* Mutant: the seeding loop stops at the first name of in-degree 0.
InitQueue_FirstOnly(perm, degree) ==
    LET q == SelectSeq(perm, LAMBDA n : degree[n] = 0)
    IN  IF q = <<>> THEN q ELSE <<Head(q)>>

InitQueue(perm, degree) == SelectSeq(perm, LAMBDA n : degree[n] = 0)

\* Mutant: a name listed several times in one list is decremented once only.
RECURSIVE Relax_OncePerName(_, _, _)
Relax_OncePerName(list, degree, queue) ==
    IF list = <<>> THEN [degree |-> degree, queue |-> queue]
    ELSE LET dep == Head(list) IN
         IF dep \in DOMAIN degree /\ dep \notin Range(Tail(list))
         THEN LET d2 == [degree EXCEPT ![dep] = @ - 1]
              IN  Relax_OncePerName(Tail(list), d2,
                                    IF d2[dep] = 0 THEN Append(queue, dep) ELSE queue)
         ELSE Relax_OncePerName(Tail(list), degree, queue)

\* Lines 185-194: walk one dependency list, decrementing and enqueueing.
RECURSIVE Relax(_, _, _)
Relax(list, degree, queue) ==
    IF list = <<>> THEN [degree |-> degree, queue |-> queue]
    ELSE LET dep == Head(list) IN
         IF dep \in DOMAIN degree
         THEN LET d2 == [degree EXCEPT ![dep] = @ - 1]
              IN  Relax(Tail(list), d2, IF d2[dep] = 0 THEN Append(queue, dep) ELSE queue)
         ELSE Relax(Tail(list), degree, queue)

\* Mutant: a queued name without a graph entry is dropped instead of reported.
RECURSIVE Kahn_SkipMissing(_, _, _)
Kahn_SkipMissing(queue, ord, degree) ==
    IF queue = <<>> THEN [err |-> "nil", name |-> "", order |-> ord, degree |-> degree]
    ELSE LET name == Head(queue) IN
         IF name \notin DOMAIN graph
         THEN Kahn_SkipMissing(Tail(queue), ord, degree)
         ELSE LET r == Relax(graph[name], degree, Tail(queue))
              IN  Kahn_SkipMissing(r.queue, Append(ord, name), r.degree)

\* Lines 166-195: the queue loop; stops with an error at a name without a graph entry.
RECURSIVE Kahn(_, _, _)
Kahn(queue, ord, degree) ==
    IF queue = <<>> THEN [err |-> "nil", name |-> "", order |-> ord, degree |-> degree]
    ELSE LET name == Head(queue) IN
         IF name \notin DOMAIN graph
         THEN [err |-> "dependency graph missing entry", name |-> name,
               order |-> <<>>, degree |-> degree]
         ELSE LET r == Relax(graph[name], degree, Tail(queue))
              IN  Kahn(r.queue, Append(ord, name), r.degree)

\* Mutant: the order is returned as the queue loop built it, dependents first.
Reversed_Not(ord) == ord

\* Lines 204-207: the order is reversed in place, dependencies first.
Reversed(ord) == Reverse(ord)

\* Mutant: the leftover in-degrees are never looked at.
CycleLeft_Never(degree) == FALSE

\* Lines 197-202: a name left with a positive in-degree means a cycle.
CycleLeft(degree) == \E n \in DOMAIN degree : degree[n] > 0

\* sort(): [err, name, order]; perm is the iteration order of g.svcs at line 152.
sort(perm) ==
    LET degree == InitDegree
        k == Kahn(InitQueue(perm, degree), <<>>, degree)
    IN  IF k.err # "nil" THEN [err |-> k.err, name |-> k.name, order |-> <<>>]
        ELSE IF CycleLeft(k.degree)
             THEN [err |-> "dependency cycle detected", name |-> "", order |-> <<>>]
             ELSE [err |-> "nil", name |-> "", order |-> Reversed(k.order)]

\* Everything sort can return on the current registry, over the iteration
\* orders of g.svcs.
SortResults == {sort(perm) : perm \in Perms(DOMAIN svcs)}

\* --------------------------------------------------------------------- New

\* The fields of a new instance besides the registry, and the state before
\* any call: zero values.
ZeroFields ==
    /\ order = <<>>
    /\ cherr = 0
    /\ startPc = "idle"
    /\ startRet = NotReturned
    /\ sorted = <<>>
    /\ idx = 1
    /\ started = {}
    /\ sg = <<>>
    /\ stopPc = "idle"
    /\ stopI = 0
    /\ stopRet = NotReturned
    /\ tg = <<>>
    /\ stopN = 0
    /\ startCalls = [n \in Names |-> [s \in Impls |-> 0]]
    /\ stopCalls = [n \in Names |-> [s \in Impls |-> 0]]
    /\ adds = [re |-> 0, late |-> FALSE, before |-> {}, last |-> <<>>]
    /\ sdPc = "idle"
    /\ codeArg = 0
    /\ code = 0
    /\ cleanups = <<>>
    /\ waiter = "none"
    /\ doneClosed = FALSE
    /\ mu = "free"
    /\ timedOut = FALSE
    /\ sdRet = 0

\* New(): an empty registry; every other field has its zero value.
Init ==
    /\ svcs = <<>>
    /\ graph = <<>>
    /\ ZeroFields

\* --------------------------------------------------------------------- Add

\* m with key k bound to v (a new key or an overwrite).
Put(m, k, v) == [x \in (DOMAIN m) \cup {k} |-> IF x = k THEN v ELSE m[x]]

\* Mutant: a name registered already keeps its first definition.
Add_KeepFirst(name, svc, deps) ==
    /\ startPc \in {"idle", "done"}
    /\ stopPc \in {"idle", "done"}
    /\ IF name \in DOMAIN svcs
       THEN UNCHANGED <<svcs, graph>>
       ELSE /\ svcs' = Put(svcs, name, [Service |-> svc, Name |-> name, Deps |-> deps, once |-> FALSE])
            /\ graph' = Put(graph, name, deps)
    /\ UNCHANGED <<shutdownVars, order, cherr, startVars, sg, stopVars, tg, startCalls, stopCalls>>

\* Add(name, svc, deps...): a fresh ServiceDef replaces any earlier one. The
\* caller makes its calls one after another: no Start or Stop is in progress.
Add(name, svc, deps) ==
    /\ startPc \in {"idle", "done"}
    /\ stopPc \in {"idle", "done"}
    /\ svcs' = Put(svcs, name, [Service |-> svc, Name |-> name, Deps |-> deps, once |-> FALSE])
    /\ graph' = Put(graph, name, deps)
    /\ UNCHANGED <<shutdownVars, order, cherr, startVars, sg, stopVars, tg, startCalls, stopCalls>>

\* The registration phase of one run: each name is registered at most once,
\* with the service object s1 and any dependency list.
AddNew ==
    /\ startPc = "idle"
    /\ stopPc = "idle"
    /\ \E name \in Names \ DOMAIN svcs : \E deps \in DepLists : Add(name, "s1", deps)
    /\ UNCHANGED adds

\* The history of Add calls after a call Add(name, svc, deps).
Added(name, svc, deps) ==
    [re |-> adds.re + (IF name \in DOMAIN svcs THEN 1 ELSE 0),
     late |-> adds.late \/ cherr > 0,
     before |-> adds.before,
     last |-> Put(adds.last, name, [svc |-> svc, deps |-> deps])]

\* The service objects a caller passes with a name: s1 at first, any when the
\* name is registered already.
ImplsFor(name) == IF name \in DOMAIN svcs THEN Impls ELSE {"s1"}

\* Any Add call, at most MaxReAdds of them for a name registered already.
AddAny ==
    \E name \in CallNames : \E svc \in ImplsFor(name) : \E deps \in DepLists :
        /\ name \in DOMAIN svcs => adds.re < MaxReAdds
        /\ Add(name, svc, deps)
        /\ adds' = Added(name, svc, deps)

\* The list with every name kept at its last occurrence only.
RECURSIVE DedupLast(_)
DedupLast(list) ==
    IF list = <<>> THEN <<>>
    ELSE IF Head(list) \in Range(Tail(list))
         THEN DedupLast(Tail(list))
         ELSE <<Head(list)>> \o DedupLast(Tail(list))

\* Add called again, before Start, for a service that lists a dependency more
\* than once: same service object, each dependency listed once.
AddDeduped ==
    /\ startPc = "idle"
    /\ \E name \in DOMAIN svcs :
         /\ DedupLast(svcs[name].Deps) # svcs[name].Deps
         /\ Add(name, svcs[name].Service, DedupLast(svcs[name].Deps))
         /\ adds' = [Added(name, svcs[name].Service, DedupLast(svcs[name].Deps))
                       EXCEPT !.before = SortResults]

\* ------------------------------------------------------------------- Start

\* Lines 220-227: make the channel and the started map, sort, return its error.
StartEnter ==
    /\ \E perm \in Perms(DOMAIN svcs) :
         LET r == sort(perm) IN
         /\ cherr' = cherr + 1
         /\ started' = {}
         /\ idx' = 1
         /\ IF r.err # "nil"
            THEN /\ startPc' = "done"
                 /\ startRet' = NewGracefulError(r.name, r.err)
                 /\ sorted' = <<>>
            ELSE /\ startPc' = "loop"
                 /\ startRet' = NotReturned
                 /\ sorted' = r.order
    /\ UNCHANGED <<adds, shutdownVars, regVars, order, sg, stopVars, tg, startCalls, stopCalls>>

\* The first Start call on the instance.
StartCall ==
    /\ startPc = "idle"
    /\ stopPc = "idle"
    /\ StartEnter

\* A later Start call on the instance, after the one before has returned.
StartAgain ==
    /\ startPc = "done"
    /\ stopPc \in {"idle", "done"}
    /\ cherr < MaxStarts
    /\ StartEnter

\* Mutant: the wait loops end only once every dependency's start operation has returned.
DepsStarted_Completed(svc) ==
    \A d \in Range(svc.Deps) : \E i \in DOMAIN sg : sg[i].name = d /\ sg[i].st = "done"

\* Lines 240-247: the wait loops end only once every dependency is in started.
DepsStarted(svc) == \A d \in Range(svc.Deps) : d \in started

\* Mutant: the launched name is put at the front of g.order.
Launch_Prepend(name) ==
    /\ sg' = Append(sg, [name |-> name, svc |-> svcs[name].Service, st |-> "ready"])
    /\ order' = <<name>> \o order
    /\ started' = started \cup {name}
    /\ svcs' = [svcs EXCEPT ![name].once = TRUE]

\* Lines 249-256: launch the goroutine, append to g.order, mark started.
Launch(name) ==
    /\ sg' = Append(sg, [name |-> name, svc |-> svcs[name].Service, st |-> "ready"])
    /\ order' = Append(order, name)
    /\ started' = started \cup {name}
    /\ svcs' = [svcs EXCEPT ![name].once = TRUE]

\* Mutant: the loop gives up as soon as a launched start operation has failed.
StartLoop_AbortOnFailure ==
    /\ startPc = "loop"
    /\ idx <= Len(sorted)
    /\ LET name == sorted[idx] IN
       IF \E i \in DOMAIN sg : sg[i].st = "sending"
       THEN /\ startPc' = "done"
            /\ startRet' = NewGracefulError(name, "service start failed")
            /\ UNCHANGED <<svcs, order, sg, started, idx>>
       ELSE IF svcs[name].once
            THEN /\ idx' = idx + 1
                 /\ UNCHANGED <<svcs, order, sg, started, startPc, startRet>>
            ELSE /\ DepsStarted(svcs[name])
                 /\ Launch(name)
                 /\ idx' = idx + 1
                 /\ UNCHANGED <<startPc, startRet>>
    /\ UNCHANGED <<adds, shutdownVars, graph, cherr, sorted, stopVars, tg, startCalls, stopCalls>>

\* Mutant: the loop does not look at the once guard of the service.
StartLoop_NoOnce ==
    /\ startPc = "loop"
    /\ idx <= Len(sorted)
    /\ LET name == sorted[idx] IN
       IF name \notin DOMAIN svcs
       THEN /\ startPc' = "done"
            /\ startRet' = NewGracefulError(name, "service not found")
            /\ UNCHANGED <<svcs, order, sg, started, idx>>
       ELSE IF FALSE
            THEN /\ idx' = idx + 1
                 /\ UNCHANGED <<svcs, order, sg, started, startPc, startRet>>
            ELSE /\ DepsStarted(svcs[name])
                 /\ Launch(name)
                 /\ idx' = idx + 1
                 /\ UNCHANGED <<startPc, startRet>>
    /\ UNCHANGED <<adds, shutdownVars, graph, cherr, sorted, stopVars, tg, startCalls, stopCalls>>

\* Lines 229-258: one iteration of the loop over sorted.
StartLoop ==
    /\ startPc = "loop"
    /\ idx <= Len(sorted)
    /\ LET name == sorted[idx] IN
       IF name \notin DOMAIN svcs
       THEN /\ startPc' = "done"
            /\ startRet' = NewGracefulError(name, "service not found")
            /\ UNCHANGED <<svcs, order, sg, started, idx>>
       ELSE IF svcs[name].once
            THEN /\ idx' = idx + 1
                 /\ UNCHANGED <<svcs, order, sg, started, startPc, startRet>>
            ELSE /\ DepsStarted(svcs[name])
                 /\ Launch(name)
                 /\ idx' = idx + 1
                 /\ UNCHANGED <<startPc, startRet>>
    /\ UNCHANGED <<adds, shutdownVars, graph, cherr, sorted, stopVars, tg, startCalls, stopCalls>>

\* Line 260: the loop is over, return nil.
StartReturn ==
    /\ startPc = "loop"
    /\ idx > Len(sorted)
    /\ startPc' = "done"
    /\ startRet' = Nil
    /\ UNCHANGED <<adds, shutdownVars, regVars, order, cherr, sorted, idx, started, sg, stopVars, tg,
                   startCalls, stopCalls>>

\* Line 250: the goroutine runs the service's start operation.
StartOpBegin(i) ==
    /\ i \in DOMAIN sg
    /\ sg[i].st = "ready"
    /\ sg' = [sg EXCEPT ![i].st = "running"]
    /\ startCalls' = [startCalls EXCEPT ![sg[i].name][sg[i].svc] = @ + 1]
    /\ UNCHANGED <<adds, shutdownVars, regVars, order, cherr, startVars, stopVars, tg, stopCalls>>

\* Lines 250-252: the start operation returns; on an error the goroutine
\* blocks sending on g.cherr, which is unbuffered ("sending" until a receiver
\* takes the error, "delivered" after).
StartOpReturn(i, failed) ==
    /\ i \in DOMAIN sg
    /\ sg[i].st = "running"
    /\ sg' = [sg EXCEPT ![i].st = IF failed THEN "sending" ELSE "done"]
    /\ UNCHANGED <<adds, shutdownVars, regVars, order, cherr, startVars, stopVars, tg, startCalls, stopCalls>>

StartGo ==
    \E i \in DOMAIN sg : StartOpBegin(i) \/ \E failed \in BOOLEAN : StartOpReturn(i, failed)

\* -------------------------------------------------------------------- Stop

\* Lines 265-268: Stop is entered; i starts at len(g.order) - 1 (1-based here).
StopEnter ==
    /\ stopPc' = "loop"
    /\ stopI' = Len(order)
    /\ stopRet' = NotReturned
    /\ stopN' = stopN + 1
    /\ UNCHANGED <<adds, shutdownVars, regVars, order, cherr, startVars, sg, tg, startCalls, stopCalls>>

\* The first Stop call on the instance.
StopCall ==
    /\ startPc \in {"idle", "done"}
    /\ stopPc = "idle"
    /\ StopEnter

\* A later Stop call on the instance, after the one before has returned.
StopAgain ==
    /\ startPc \in {"idle", "done"}
    /\ stopPc = "done"
    /\ stopN < MaxStops
    /\ StopEnter

\* Mutant: no stop goroutine is launched for a service whose start operation failed.
StopLoop_SkipFailed ==
    /\ stopPc = "loop"
    /\ stopI >= 1
    /\ tg' = IF sg[stopI].st \in {"sending", "delivered"}
             THEN tg
             ELSE Append(tg, [name |-> order[stopI], st |-> "ready", call |-> stopN])
    /\ stopI' = stopI - 1
    /\ UNCHANGED <<adds, shutdownVars, regVars, order, cherr, startVars, sg, stopPc, stopRet, stopN, startCalls, stopCalls>>

\* Mutant: Stop takes each name off g.order as it launches the goroutine for it.
StopLoop_PopOrder ==
    /\ stopPc = "loop"
    /\ stopI >= 1
    /\ tg' = Append(tg, [name |-> order[stopI], st |-> "ready", call |-> stopN])
    /\ order' = SubSeq(order, 1, stopI - 1)
    /\ stopI' = stopI - 1
    /\ UNCHANGED <<adds, shutdownVars, regVars, cherr, startVars, sg, stopPc, stopRet, stopN, startCalls, stopCalls>>

\* Lines 268-286: one iteration: wg.Add(1) and launch the goroutine for g.order[i].
StopLoop ==
    /\ stopPc = "loop"
    /\ stopI >= 1
    /\ tg' = Append(tg, [name |-> order[stopI], st |-> "ready", call |-> stopN])
    /\ stopI' = stopI - 1
    /\ UNCHANGED <<adds, shutdownVars, regVars, order, cherr, startVars, sg, stopPc, stopRet, stopN, startCalls, stopCalls>>

\* Lines 276-278: the goroutine looks the name up in g.svcs and runs the
\* service's stop operation; without a match it falls out of the loop and returns.
StopOpBegin(k) ==
    /\ k \in DOMAIN tg
    /\ tg[k].st = "ready"
    /\ LET name == tg[k].name IN
       IF \E n \in DOMAIN svcs : svcs[n].Name = name
       THEN /\ tg' = [tg EXCEPT ![k].st = "running"]
            /\ stopCalls' = [stopCalls EXCEPT ![name][svcs[name].Service] = @ + 1]
       ELSE /\ tg' = [tg EXCEPT ![k].st = "done"]
            /\ UNCHANGED stopCalls
    /\ UNCHANGED <<adds, shutdownVars, regVars, order, cherr, startVars, sg, stopVars, startCalls>>

\* Lines 278-282: the stop operation returns; on an error the goroutine blocks
\* sending on g.cherr before its deferred wg.Done runs.
StopOpReturn(k, failed) ==
    /\ k \in DOMAIN tg
    /\ tg[k].st = "running"
    /\ tg' = [tg EXCEPT ![k].st = IF failed THEN "sending" ELSE "done"]
    /\ UNCHANGED <<adds, shutdownVars, regVars, order, cherr, startVars, sg, stopVars, startCalls, stopCalls>>

StopGo ==
    \E k \in DOMAIN tg : StopOpBegin(k) \/ \E failed \in BOOLEAN : StopOpReturn(k, failed)

\* Mutant: Stop does not join its goroutines.
WaitDone_NoJoin == TRUE

\* Line 287: wg.Wait() returns once every launched goroutine has run wg.Done.
WaitDone == \A k \in DOMAIN tg : tg[k].st \in {"done", "delivered"}

\* Goroutines blocked in a send on the channel g.cherr (none on the nil channel).
StartSenders == {i \in DOMAIN sg : sg[i].st = "sending" /\ cherr # 0}
StopSenders == {k \in DOMAIN tg : tg[k].st = "sending" /\ cherr # 0}

\* Mutant: a plain receive from g.cherr, without the default case.
StopReturn_NoDefault ==
    /\ stopPc = "loop"
    /\ stopI = 0
    /\ WaitDone
    /\ stopPc' = "done"
    /\ \/ \E i \in StartSenders :
            /\ sg' = [sg EXCEPT ![i].st = "delivered"]
            /\ stopRet' = NewGracefulError(sg[i].name, "service start failed")
            /\ UNCHANGED tg
       \/ \E k \in StopSenders :
            /\ tg' = [tg EXCEPT ![k].st = "delivered"]
            /\ stopRet' = NewGracefulError(tg[k].name, "service stop failed")
            /\ UNCHANGED sg
    /\ UNCHANGED <<adds, shutdownVars, regVars, order, cherr, startVars, stopI, stopN, startCalls, stopCalls>>

\* Lines 287-294: join, then receive one error if a sender is ready, else nil.
StopReturn ==
    /\ stopPc = "loop"
    /\ stopI = 0
    /\ WaitDone
    /\ stopPc' = "done"
    /\ IF StartSenders = {} /\ StopSenders = {}
       THEN /\ stopRet' = Nil
            /\ UNCHANGED <<sg, tg>>
       ELSE \/ \E i \in StartSenders :
                 /\ sg' = [sg EXCEPT ![i].st = "delivered"]
                 /\ stopRet' = NewGracefulError(sg[i].name, "service start failed")
                 /\ UNCHANGED tg
            \/ \E k \in StopSenders :
                 /\ tg' = [tg EXCEPT ![k].st = "delivered"]
                 /\ stopRet' = NewGracefulError(tg[k].name, "service stop failed")
                 /\ UNCHANGED sg
    /\ UNCHANGED <<adds, shutdownVars, regVars, order, cherr, startVars, stopI, stopN, startCalls, stopCalls>>

\* ---------------------------------------------------------------- Shutdown

\* Shutdown(ctx, cleanups, interrupt, timeout, code) is entered (v1.go:156); its
\* first statement is the send on interrupt.
ShutdownCall ==
    /\ sdPc = "idle"
    /\ \E c \in Codes : \E n \in 0..MaxCleanups :
         /\ codeArg' = c
         /\ code' = c
         /\ cleanups' = [j \in 1..n |-> "pending"]
    /\ sdPc' = "send"
    /\ UNCHANGED <<gracefulVars, adds, waiter, doneClosed, mu, timedOut, sdRet>>

\* Line 157: the send on interrupt completes once some goroutine receives
\* from the channel (or its buffer has room).
InterruptTaken ==
    /\ sdPc = "send"
    /\ sdPc' = "launch"
    /\ UNCHANGED <<gracefulVars, adds, codeArg, code, cleanups, waiter, doneClosed, mu,
                   timedOut, sdRet>>

\* Lines 164-185: wg.Add, one goroutine per cleanup, the done channel and the
\* goroutine that waits for the group.
SdLaunch ==
    /\ sdPc = "launch"
    /\ cleanups' = [j \in DOMAIN cleanups |-> "ready"]
    /\ waiter' = "waiting"
    /\ sdPc' = "select"
    /\ UNCHANGED <<gracefulVars, adds, codeArg, code, doneClosed, mu, timedOut, sdRet>>

\* Line 170: the goroutine calls cleanup(ctx).
ClBegin(j) ==
    /\ j \in DOMAIN cleanups
    /\ cleanups[j] = "ready"
    /\ cleanups' = [cleanups EXCEPT ![j] = "running"]
    /\ UNCHANGED <<gracefulVars, adds, sdPc, codeArg, code, waiter, doneClosed, mu,
                   timedOut, sdRet>>

\* Line 170: cleanup(ctx) returns; without an error the deferred wg.Done runs.
ClReturn(j, failed) ==
    /\ j \in DOMAIN cleanups
    /\ cleanups[j] = "running"
    /\ cleanups' = [cleanups EXCEPT ![j] = IF failed THEN "failed" ELSE "done"]
    /\ UNCHANGED <<gracefulVars, adds, sdPc, codeArg, code, waiter, doneClosed, mu,
                   timedOut, sdRet>>

\* Lines 171-176: after an error the goroutine takes mu, sets code to 1, and
\* its deferred calls release mu and run wg.Done.
ClRecord(j) ==
    /\ j \in DOMAIN cleanups
    /\ cleanups[j] = "failed"
    /\ mu = "free"
    /\ code' = 1
    /\ cleanups' = [cleanups EXCEPT ![j] = "doneErr"]
    /\ UNCHANGED <<gracefulVars, adds, sdPc, codeArg, waiter, doneClosed, mu, timedOut, sdRet>>

CleanupGo ==
    \E j \in DOMAIN cleanups :
        ClBegin(j) \/ (\E failed \in BOOLEAN : ClReturn(j, failed)) \/ ClRecord(j)

\* Line 183: wg.Wait() returns once every cleanup goroutine has run wg.Done.
WtWake ==
    /\ waiter = "waiting"
    /\ \A j \in DOMAIN cleanups : cleanups[j] \in {"done", "doneErr"}
    /\ waiter' = "sending"
    /\ UNCHANGED <<gracefulVars, adds, sdPc, codeArg, code, cleanups, doneClosed, mu,
                   timedOut, sdRet>>

\* Line 184 against line 199: a send on the closed channel done panics.
WtPanic ==
    /\ waiter = "sending"
    /\ doneClosed
    /\ waiter' = "panicked"
    /\ UNCHANGED <<gracefulVars, adds, sdPc, codeArg, code, cleanups, doneClosed, mu,
                   timedOut, sdRet>>

WaiterGo == WtWake \/ WtPanic

\* Lines 187-189: the select receives from done, which takes the waiter's send.
SdSelectDone ==
    /\ sdPc = "select"
    /\ waiter = "sending"
    /\ waiter' = "exited"
    /\ sdPc' = "close"
    /\ UNCHANGED <<gracefulVars, adds, codeArg, code, cleanups, doneClosed, mu, timedOut, sdRet>>

\* Mutant: the timeout case leaves code as it is.
SdTimeout_KeepCode ==
    /\ sdPc = "select"
    /\ mu = "free"
    /\ mu' = "shutdown"
    /\ timedOut' = TRUE
    /\ sdPc' = "close"
    /\ UNCHANGED <<gracefulVars, adds, codeArg, code, cleanups, waiter, doneClosed, sdRet>>

\* Lines 190-196: the timer fires and the select takes it: mu is taken (and
\* released by the deferred call when Shutdown returns), code becomes 1.
SdTimeout ==
    /\ sdPc = "select"
    /\ mu = "free"
    /\ mu' = "shutdown"
    /\ code' = 1
    /\ timedOut' = TRUE
    /\ sdPc' = "close"
    /\ UNCHANGED <<gracefulVars, adds, codeArg, cleanups, waiter, doneClosed, sdRet>>

\* Line 199: close(done).
SdClose ==
    /\ sdPc = "close"
    /\ doneClosed' = TRUE
    /\ sdPc' = "return"
    /\ UNCHANGED <<gracefulVars, adds, codeArg, code, cleanups, waiter, mu, timedOut, sdRet>>

\* Line 201: return code; the deferred mu.Unlock of the timeout case runs.
SdReturn ==
    /\ sdPc = "return"
    /\ sdRet' = code
    /\ mu' = "free"
    /\ sdPc' = "done"
    /\ UNCHANGED <<gracefulVars, adds, codeArg, code, cleanups, waiter, doneClosed, timedOut>>

\* ----------------------------------------------------------- specification

\* One run of an instance: services are registered, Start is called at most
\* once, and Stop is called at most once, before Start or after it has
\* returned. The goroutines Start launched keep running during Stop.
Next ==
    \/ AddNew
    \/ StartCall
    \/ StartLoop
    \/ StartReturn
    \/ StartGo
    \/ StopCall
    \/ StopLoop
    \/ StopGo
    \/ StopReturn

Spec == Init /\ [][Next]_vars

\* A launched goroutine gets to run its service's start operation.
StartBegin == \E i \in DOMAIN sg : StartOpBegin(i)

\* Any sequence of Add and Start calls by one caller (a call is made once the
\* call before has returned), with the goroutines Start launched. Neither Add
\* nor Start reads what a start operation returned, so the start operations
\* are left running here.
NextCalls ==
    \/ AddAny
    \/ StartCall
    \/ StartAgain
    \/ StartLoop
    \/ StartReturn
    \/ StartBegin

SpecCalls == Init /\ [][NextCalls]_vars

\* Any sequence of Add, Start and Stop calls by one caller, with the goroutines
\* Start and Stop launched. As in NextCalls the start operations are left
\* running.
NextLife ==
    \/ AddAny
    \/ StartCall
    \/ StartAgain
    \/ StartLoop
    \/ StartReturn
    \/ StartBegin
    \/ StopCall
    \/ StopAgain
    \/ StopLoop
    \/ StopGo
    \/ StopReturn

SpecLife == Init /\ [][NextLife]_vars

\* One run of an instance as in Next, with Stop called again any number of
\* times (up to MaxStops) once the Stop call before has returned.
NextStops ==
    \/ AddNew
    \/ StartCall
    \/ StartLoop
    \/ StartReturn
    \/ StartGo
    \/ StopCall
    \/ StopAgain
    \/ StopLoop
    \/ StopGo
    \/ StopReturn

SpecStops == Init /\ [][NextStops]_vars

\* One Shutdown call with its cleanup goroutines, the waiting goroutine and
\* whoever receives from the interrupt channel.
NextShutdown ==
    \/ ShutdownCall
    \/ InterruptTaken
    \/ SdLaunch
    \/ CleanupGo
    \/ WaiterGo
    \/ SdSelectDone
    \/ SdTimeout
    \/ SdClose
    \/ SdReturn

SpecShutdown == Init /\ [][NextShutdown]_vars

\* Shutdown's own statements are executed, runnable goroutines are scheduled
\* and the timer of time.After fires. No cleanup has to return and nobody has
\* to receive from the interrupt channel.
FairnessShutdown ==
    /\ WF_vars(SdLaunch)
    /\ WF_vars(SdSelectDone)
    /\ WF_vars(SdTimeout)
    /\ WF_vars(SdClose)
    /\ WF_vars(SdReturn)
    /\ WF_vars(WaiterGo)
    /\ \A j \in 1..MaxCleanups : WF_vars(ClBegin(j)) /\ WF_vars(ClRecord(j))

SpecShutdownFair == Init /\ [][NextShutdown]_vars /\ FairnessShutdown

\* sort on its own: the registry is any one that Add calls can build from
\* Names with dependency lists of length at most MaxSortDeps; a registered
\* service may be added again with its duplicate dependencies removed, and
\* Start is entered, which sorts and keeps or returns the result.
SortDepLists == SeqsUpTo(Names, MaxSortDeps)

InitSort ==
    /\ \E D \in SUBSET Names : \E f \in [D -> SortDepLists] :
         /\ svcs = [n \in D |-> [Service |-> "s1", Name |-> n, Deps |-> f[n], once |-> FALSE]]
         /\ graph = f
    /\ ZeroFields

NextSort ==
    \/ AddDeduped
    \/ StartCall

SpecSort == InitSort /\ [][NextSort]_vars

\* The Go scheduler runs every runnable goroutine eventually, and the service
\* operations are taken to return: each step of the Start and Stop calls and
\* of every launched goroutine is weakly fair. The caller's own calls (Add,
\* Start, Stop) are not.
Fairness ==
    /\ WF_vars(StartLoop)
    /\ WF_vars(StartReturn)
    /\ WF_vars(StopLoop)
    /\ WF_vars(StopReturn)
    /\ \A i \in 1..Cardinality(Names) :
         /\ WF_vars(StartOpBegin(i))
         /\ WF_vars(\E failed \in BOOLEAN : StartOpReturn(i, failed))
         /\ WF_vars(StopOpBegin(i))
         /\ WF_vars(\E failed \in BOOLEAN : StopOpReturn(i, failed))

SpecFair == Init /\ [][Next]_vars /\ Fairness

\* ------------------------------------------------- vocabulary of the claims

\* The names a registered service lists as dependencies.
DirectDeps(n) == IF n \in DOMAIN svcs THEN Range(svcs[n].Deps) ELSE {}

RECURSIVE Closure(_)
Closure(S) ==
    LET T == S \cup UNION {DirectDeps(n) : n \in S}
    IN  IF T = S THEN S ELSE Closure(T)

\* Every name reachable from n along one or more dependency edges.
Reachable(n) == Closure(DirectDeps(n))

\* Some registered service depends, directly or transitively, on itself.
HasCycle == \E n \in DOMAIN svcs : n \in Reachable(n)

AllDepsRegistered == \A n \in DOMAIN svcs : DirectDeps(n) \subseteq DOMAIN svcs

\* A start or stop goroutine whose service operation has begun / has returned / failed.
Begun(g) == g.st # "ready"
Returned(g) == g.st \in {"done", "sending", "delivered"}
Failed(g) == g.st \in {"sending", "delivered"}
Finished(g) == g.st \in {"done", "delivered"}

StartFailed(x) == \E i \in DOMAIN sg : sg[i].name = x /\ Failed(sg[i])

StartCount(n) == startCalls[n][svcs[n].Service]
StopCount(n) == stopCalls[n][svcs[n].Service]

\* ------------------------------------------------------------------ claims

\* C1: whenever the start operation of a service B has begun, the start
\* operation of every registered service A that B lists as a dependency has
\* already returned.
C1_DependencyStartedBeforeDependent ==
    \A j \in DOMAIN sg :
        Begun(sg[j]) =>
            \A a \in DirectDeps(sg[j].name) \cap DOMAIN svcs :
                \E i \in DOMAIN sg : sg[i].name = a /\ Returned(sg[i])

\* C2: no start operation ever runs twice, and once Start has been called on
\* an acyclic registry whose dependencies are all registered, Start returns
\* nil and every registered service's start operation has run exactly once.
C2_StartInvokesEveryServiceOnce ==
    /\ [](\A n \in Names : \A s \in Impls : startCalls[n][s] <= 1)
    /\ (startPc # "idle" /\ ~HasCycle /\ AllDepsRegistered)
         ~> (startRet = Nil /\ \A n \in DOMAIN svcs : StartCount(n) = 1)

\* C2 witness: three services, one of them with a dependency, all started once.
C2_Witness ==
    /\ startRet = Nil
    /\ Cardinality(DOMAIN svcs) = 3
    /\ \E n \in DOMAIN svcs : DirectDeps(n) # {}
    /\ \A n \in DOMAIN svcs : StartCount(n) = 1

\* C3: with a dependency cycle in the registry (a self-dependency included),
\* Start returns an error as soon as it is called, no start goroutine is
\* launched, no start operation runs and the started order stays empty.
C3_CycleFailsStartUntouched ==
    HasCycle =>
        /\ order = <<>>
        /\ sg = <<>>
        /\ \A n \in Names : \A s \in Impls : startCalls[n][s] = 0
        /\ startPc # "idle" => (startPc = "done" /\ startRet \notin {NotReturned, Nil})

\* C3 witness: Start has returned on a registry of three services of which
\* one depends on itself and another is on no cycle.
C3_Witness ==
    /\ HasCycle
    /\ startPc = "done"
    /\ Cardinality(DOMAIN svcs) = 3
    /\ \E n \in DOMAIN svcs : n \in DirectDeps(n)
    /\ \E n \in DOMAIN svcs : n \notin Reachable(n) /\ DirectDeps(n) = {}

\* C4: no stop operation runs twice, and when Stop has returned after a Start
\* that returned nil, one stop goroutine per entry of the started order was
\* launched, each has finished, and each service's stop operation ran once.
C4_StopRunsEveryStopOnceAndJoins ==
    /\ \A n \in Names : \A s \in Impls : stopCalls[n][s] <= 1
    /\ (startRet = Nil /\ stopPc = "done") =>
          /\ Len(tg) = Len(order)
          /\ \A i \in DOMAIN order :
                /\ \E k \in DOMAIN tg : tg[k].name = order[i] /\ Finished(tg[k])
                /\ StopCount(order[i]) = 1

\* C4 witness: Stop has returned after stopping three started services.
C4_Witness ==
    /\ startRet = Nil
    /\ stopPc = "done"
    /\ Len(order) = 3

\* C5: whenever the stop operation of a service A has begun, the stop
\* operation of every started service that lists A as a dependency has begun.
C5_DependentStoppedBeforeDependency ==
    \A k \in DOMAIN tg :
        Begun(tg[k]) =>
            \A i \in DOMAIN order :
                tg[k].name \in DirectDeps(order[i]) =>
                    \E m \in DOMAIN tg : tg[m].name = order[i] /\ Begun(tg[m])

\* C6 as stated: a service whose start operation returned a failure is not in
\* the started order, and its stop operation is never run.
C6_FailedStartExcluded ==
    \A x \in DOMAIN svcs :
        StartFailed(x) => (x \notin Range(order) /\ StopCount(x) = 0)

\* C6 as amended: a service whose start operation returned a failure is in the
\* started order all the same (it was appended when its start was launched),
\* and a Stop call that has returned has run its stop operation.
C6_FailedStartStillStopped ==
    \A x \in DOMAIN svcs :
        StartFailed(x) =>
            /\ x \in Range(order)
            /\ stopPc = "done" => StopCount(x) = 1

\* C6 witness: Stop has returned and ran the stop operation of a service whose
\* start operation had failed.
C6_Witness ==
    \E x \in DOMAIN svcs : StartFailed(x) /\ stopPc = "done" /\ StopCount(x) = 1

\* C7: once a stop operation has returned a failure, the Stop call eventually
\* returns, with an error.
C7_StopReturnsErrorOnStopFailure ==
    (\E k \in DOMAIN tg : Failed(tg[k])) ~> (stopPc = "done" /\ stopRet \notin {NotReturned, Nil})

\* C8: every goroutine blocked sending a start or stop failure on the error
\* channel eventually has its error received.
C8_PublishedErrorReceived ==
    \A i \in 1..Cardinality(Names) :
        /\ (i \in DOMAIN sg /\ sg[i].st = "sending") ~> (i \in DOMAIN sg /\ sg[i].st = "delivered")
        /\ (i \in DOMAIN tg /\ tg[i].st = "sending") ~> (i \in DOMAIN tg /\ tg[i].st = "delivered")

\* C9: once the start operation of some service has failed, Start returns nil
\* and, for each service x that failed to start, the start operation of every
\* other registered service runs (once); and once Stop is called as well, the
\* stop operation of every other registered service runs.
C9_SiblingsStartAndStop ==
    /\ (\E x \in Names : StartFailed(x))
         ~> (/\ startRet = Nil
             /\ \A x \in Names : StartFailed(x) =>
                   \A y \in DOMAIN svcs \ {x} : StartCount(y) = 1)
    /\ ((\E x \in Names : StartFailed(x)) /\ stopPc # "idle")
         ~> (\A x \in Names : StartFailed(x) =>
               \A y \in DOMAIN svcs \ {x} : StopCount(y) = 1)

\* C9 witness: one of three services failed to start; the two others were
\* started and, after Stop, stopped.
C9_Witness ==
    \E x \in DOMAIN svcs :
        /\ StartFailed(x)
        /\ Cardinality(DOMAIN svcs) = 3
        /\ stopPc = "done"
        /\ \A y \in DOMAIN svcs \ {x} :
              /\ ~StartFailed(y)
              /\ StartCount(y) = 1
              /\ StopCount(y) = 1

C11_UnregisteredDependencyFailsStart ==
    ~AllDepsRegistered =>
        /\ startPc \in {"idle", "done"}
        /\ startPc = "done" => startRet \notin {NotReturned, Nil}
        /\ sg = <<>>
        /\ order = <<>>
        /\ \A n \in Names : \A s \in Impls : startCalls[n][s] = 0

\* C11 witness: Start has returned "dependency graph missing entry" on an
\* acyclic registry of two services, one listing an unregistered name.
C11_Witness ==
    /\ startPc = "done"
    /\ ~HasCycle
    /\ Cardinality(DOMAIN svcs) = 2
    /\ \E n \in DOMAIN svcs : DirectDeps(n) = {}
    /\ \E n \in DOMAIN svcs : DirectDeps(n) # {} /\ DirectDeps(n) \cap DOMAIN svcs = {}
    /\ startRet.Reason = "dependency graph missing entry"

C16_SortIsTopological ==
    AllDepsRegistered =>
        \A perm \in Perms(DOMAIN svcs) :
            LET r == sort(perm) IN
            /\ (r.err = "nil") <=> ~HasCycle
            /\ HasCycle => r.err = "dependency cycle detected"
            /\ r.err = "nil" =>
                 /\ Len(r.order) = Cardinality(DOMAIN svcs)
                 /\ Range(r.order) = DOMAIN svcs
                 /\ \A i \in DOMAIN r.order :
                      \A d \in DirectDeps(r.order[i]) :
                          \E j \in 1..(i - 1) : r.order[j] = d

\* C16 witness: Start holds the order sort returned for three services, one
\* of which depends on both others and lists one of them twice.
C16_Witness ==
    /\ startPc = "loop"
    /\ Len(sorted) = 3
    /\ \E n \in DOMAIN svcs :
         /\ Cardinality(DirectDeps(n)) = 2
         /\ sorted[3] = n
    /\ sorted \in {r.order : r \in SortResults}

\* C19: sort is deterministic: the order Start got from sort is the order
\* sort returns on that registry whatever the iteration order of g.svcs,
\* several services of in-degree 0 included.
C19_SortDeterministic ==
    startPc # "idle" =>
        \A perm \in Perms(DOMAIN svcs) :
            LET r == sort(perm) IN
            /\ r.order = sorted
            /\ (r.err = "nil") <=> (startPc = "loop")

\* C12: as long as every Add call came before the first Start call, the
\* registry holds for each name exactly the arguments of the latest Add call
\* for it, with a fresh once guard until Start runs; only the service object
\* of that latest call is ever started; the started order respects the latest
\* dependency lists; and Start returns an error exactly when these lists have
\* a cycle or name an unregistered service.
C12_ReAddReplacesDefinition ==
    ~adds.late =>
        /\ DOMAIN svcs = DOMAIN adds.last
        /\ DOMAIN graph = DOMAIN adds.last
        /\ \A n \in DOMAIN adds.last :
             /\ svcs[n].Service = adds.last[n].svc
             /\ svcs[n].Deps = adds.last[n].deps
             /\ graph[n] = adds.last[n].deps
             /\ cherr = 0 => ~svcs[n].once
        /\ \A n \in Names : \A s \in Impls :
             startCalls[n][s] > 0 => (n \in DOMAIN adds.last /\ adds.last[n].svc = s)
        /\ \A i \in DOMAIN order :
             \A d \in Range(adds.last[order[i]].deps) : \E j \in 1..(i - 1) : order[j] = d
        /\ startPc = "loop" => (~HasCycle /\ AllDepsRegistered)
        /\ startPc = "done" => ((startRet = Nil) <=> (~HasCycle /\ AllDepsRegistered))

\* C12 witness: a service was first added with the object s1 and added again
\* with s2 before Start; Start returned nil and s2's start operation ran for
\* that name, s1's did not.
C12_Witness ==
    /\ ~adds.late
    /\ adds.re >= 1
    /\ startRet = Nil
    /\ \E n \in DOMAIN svcs :
         /\ adds.last[n].svc = "s2"
         /\ adds.last[n].deps # <<>>
         /\ startCalls[n]["s2"] = 1
         /\ startCalls[n]["s1"] = 0

\* C18 as stated: with no Add after the first Start call, no start operation
\* runs twice, a second or later Start call launches nothing and leaves the
\* started order alone, and it returns nil.
C18_SecondStartReturnsNil ==
    /\ [](~adds.late => \A n \in Names : \A s \in Impls : startCalls[n][s] <= 1)
    /\ [][(~adds'.late /\ cherr' >= 2) => (order' = order /\ Len(sg') = Len(sg))]_vars
    /\ [](~adds.late /\ cherr >= 2 /\ startPc = "done" => startRet = Nil)

\* C18 amended: as above, but the second or later Start call returns nil
\* exactly when the registry is acyclic with every dependency registered;
\* otherwise it returns the error of sort again.
C18_SecondStartIsNoOp ==
    /\ [](~adds.late => \A n \in Names : \A s \in Impls : startCalls[n][s] <= 1)
    /\ [][(~adds'.late /\ cherr' >= 2) => (order' = order /\ Len(sg') = Len(sg))]_vars
    /\ [](~adds.late /\ cherr >= 2 /\ startPc = "done" =>
            /\ (startRet = Nil) <=> (~HasCycle /\ AllDepsRegistered)
            /\ startRet # Nil => startRet.Reason \in {"dependency cycle detected",
                                                      "dependency graph missing entry"})

\* C18 witness: the second Start call has returned nil on two services, one
\* depending on the other, each started once.
C18_Witness ==
    /\ ~adds.late
    /\ cherr = 2
    /\ startRet = Nil
    /\ Len(order) = 2
    /\ \E n \in DOMAIN svcs : DirectDeps(n) # {}
    /\ \A n \in DOMAIN svcs : StartCount(n) = 1

\* C20: a Start call never waits forever in its dependency wait loop: while
\* it is in its loop it can take its next step, whatever Add and Start calls
\* came before.
C20_StartNeverSpins ==
    startPc = "loop" => ENABLED (StartLoop \/ StartReturn)

\* C14: a Shutdown call that has been made eventually returns, whether or not
\* its cleanups return and whether or not anybody receives from the interrupt
\* channel.
C14_ShutdownReturns ==
    (sdPc # "idle") ~> (sdPc = "done")

\* C15: Shutdown returns 1 when the select took the timeout or some cleanup
\* returned an error; otherwise every cleanup has returned without an error
\* and Shutdown returns the code the caller passed.
C15_ShutdownCode ==
    sdPc = "done" =>
        /\ timedOut => sdRet = 1
        /\ (\E j \in DOMAIN cleanups : cleanups[j] \in {"failed", "doneErr"}) => sdRet = 1
        /\ ~timedOut => \A j \in DOMAIN cleanups : cleanups[j] \in {"done", "doneErr"}
        /\ (~timedOut /\ \A j \in DOMAIN cleanups : cleanups[j] = "done") => sdRet = codeArg

\* C15 witness: Shutdown was passed the code 2 and two cleanups; one returned
\* an error, both were done before the timeout, and Shutdown returned 1.
C15_Witness ==
    /\ sdPc = "done"
    /\ ~timedOut
    /\ codeArg = 2
    /\ Len(cleanups) = 2
    /\ \E j \in DOMAIN cleanups : cleanups[j] = "doneErr"
    /\ \E j \in DOMAIN cleanups : cleanups[j] = "done"
    /\ sdRet = 1

\* C22: no goroutine of Shutdown sends on the channel done once it is closed:
\* the waiting goroutine never reaches its send after close(done) has run.
C22_NoSendOnClosedDone ==
    waiter # "panicked"

\* C23: a Stop call made while Start was never called (g.cherr is still the
\* nil channel) launches no stop goroutine, runs no stop operation, can
\* always take its next step, and returns nil.
C23_StopBeforeStart ==
    (cherr = 0 /\ stopPc # "idle") =>
        /\ tg = <<>>
        /\ \A n \in Names : \A s \in Impls : stopCalls[n][s] = 0
        /\ stopPc = "loop" => ENABLED (StopLoop \/ StopReturn)
        /\ stopPc = "done" => stopRet = Nil

\* C23 witness: Stop has returned nil on an instance with two services added
\* and no Start call.
C23_Witness ==
    /\ cherr = 0
    /\ stopPc = "done"
    /\ stopRet = Nil
    /\ Cardinality(DOMAIN svcs) = 2

\* C21: whatever the Add, Start and Stop calls, no name is in the started
\* order twice, and within one Stop call the stop operation registered under
\* a name is run by at most one goroutine.
C21_NoNameStartedTwice ==
    /\ \A i, j \in DOMAIN order : order[i] = order[j] => i = j
    /\ \A c \in 1..stopN : \A n \in DOMAIN svcs :
         Cardinality({k \in DOMAIN tg : /\ tg[k].call = c
                                       /\ tg[k].name = n
                                       /\ tg[k].st # "ready"}) <= 1

\* C24: no step of Stop or of its goroutines changes the registry or the
\* started order; and when a Stop call has returned, that call and every Stop
\* call before it launched one goroutine per entry of the started order, in
\* reverse order, and each registered service's stop operation has run once
\* per call for each of its entries.
C24_StopKeepsRegistryAndOrder ==
    /\ [][(stopPc' # stopPc \/ stopI' # stopI \/ stopN' # stopN \/ tg' # tg)
            => (svcs' = svcs /\ graph' = graph /\ order' = order)]_vars
    /\ [](stopPc = "done" =>
            /\ \A c \in 1..stopN :
                 LET launched == SelectSeq(tg, LAMBDA g : g.call = c)
                 IN  [k \in DOMAIN launched |-> launched[k].name] = Reverse(order)
            /\ \A n \in DOMAIN svcs : StopCount(n) = stopN * Count(order, n))

\* C24 witness: the second Stop call has returned after a Start of three
\* services, and each service's stop operation has run twice.
C24_Witness ==
    /\ stopN = 2
    /\ stopPc = "done"
    /\ Len(order) = 3
    /\ \A n \in DOMAIN svcs : StopCount(n) = 2
====
